---- MODULE Spec2Model ----
(***************************************************************************)
(* Lifeband_MAA utility scripts.                                           *)
(*                                                                         *)
(*  - scripts/setup_pbr_textures.py : main() and the __main__ guard, as a  *)
(*    sequential program whose library calls (bpy) may raise.              *)
(*  - firmware/simple_gen.py : generate_c_header(), one f.write per token. *)
(*                                                                         *)
(* Text is modelled as tuples of one-character strings wherever the code   *)
(* inspects or converts characters (lower(), upper(), substring search).   *)
(***************************************************************************)
EXTENDS Integers, Sequences, FiniteSets, TLC

VARIABLES
  pc,           \* position of the Blender script: main() and its caller
  inputExists,  \* os.path.exists(INPUT_GLB)
  objects,      \* bpy.data.objects: records [name, type, materials]
  imported,     \* bpy.data.objects as it stood right after the import
  images,       \* bpy.data.images: names, in creation order
  textures,     \* keys of main()'s textures dict
  materials,    \* main()'s materials dict: created materials, in order
  idx,          \* index of the texture or material loop main() is in
  visited,      \* how many of bpy.data.objects the last loop has been through
  result,       \* what main() returned
  log,          \* library calls and status prints, in order
  hpc,          \* position inside generate_c_header
  model_name,   \* its argument: index into ModelNames
  description,  \* its argument
  model_data,   \* its local byte buffer
  out,          \* the f.write calls made on the header file, in order
  hi,           \* its loop variable i
  hret          \* its return value

vars == <<pc, inputExists, objects, imported, images, textures, materials,
          idx, visited, result, log, hpc, model_name, description, model_data, out,
          hi, hret>>

pbrVars == <<pc, inputExists, objects, imported, images, textures, materials,
             idx, visited, result, log>>

hdrVars == <<hpc, model_name, description, model_data, out, hi, hret>>

-----------------------------------------------------------------------------
(* Characters: str.lower(), str.upper(), the `in` operator on strings.     *)

UpperChars ==
  <<"A", "B", "C", "D", "E", "F", "G", "H", "I", "J", "K", "L", "M",
    "N", "O", "P", "Q", "R", "S", "T", "U", "V", "W", "X", "Y", "Z">>

LowerChars ==
  <<"a", "b", "c", "d", "e", "f", "g", "h", "i", "j", "k", "l", "m",
    "n", "o", "p", "q", "r", "s", "t", "u", "v", "w", "x", "y", "z">>

LowerChar(c) ==
  IF \E k \in 1..Len(UpperChars) : UpperChars[k] = c
  THEN LowerChars[CHOOSE k \in 1..Len(UpperChars) : UpperChars[k] = c]
  ELSE c

UpperChar(c) ==
  IF \E k \in 1..Len(LowerChars) : LowerChars[k] = c
  THEN UpperChars[CHOOSE k \in 1..Len(LowerChars) : LowerChars[k] = c]
  ELSE c

Lower(s) == [i \in 1..Len(s) |-> LowerChar(s[i])]

Upper(s) == [i \in 1..Len(s) |-> UpperChar(s[i])]

\* a == b: what the matcher would test had it compared for equality
IsSubstring_equality(a, b) ==
  Len(a) = Len(b) /\ \A i \in 1..Len(a) : b[i] = a[i]

\* a in b, for Python strings
IsSubstring(a, b) ==
  \E k \in 0..(Len(b) - Len(a)) :
    \A i \in 1..Len(a) : b[k + i] = a[i]

RECURSIVE Str(_)
\* the text of a tuple of characters
Str(s) == IF Len(s) = 0 THEN "" ELSE s[1] \o Str(Tail(s))

-----------------------------------------------------------------------------
(* scripts/setup_pbr_textures.py: configuration                            *)

None == "None"

\* keys of COLORS, in insertion order
MatTypes ==
  <<"saree", "hair", "mother_skin", "baby_skin", "baby_hair", "base">>

\* values in thousandths
COLORS ==
  [saree |-> <<784, 200, 227>>, hair |-> <<51, 51, 51>>,
   mother_skin |-> <<902, 702, 541>>, baby_skin |-> <<941, 784, 639>>,
   baby_hair |-> <<100, 100, 100>>, base |-> <<965, 843, 690>>]

ROUGHNESS ==
  [saree |-> 600, hair |-> 250, mother_skin |-> 450, baby_skin |-> 350,
   baby_hair |-> 500, base |-> 700]

METALLIC ==
  [saree |-> 0, hair |-> 100, mother_skin |-> 0, baby_skin |-> 0,
   baby_hair |-> 50, base |-> 0]

\* dict literal, in insertion order
MESH_MATERIAL_MAP ==
  << [key |-> <<"s", "a", "r", "e", "e">>, val |-> "saree"],
     [key |-> <<"S", "a", "r", "e", "e">>, val |-> "saree"],
     [key |-> <<"c", "l", "o", "t", "h">>, val |-> "saree"],
     [key |-> <<"C", "l", "o", "t", "h">>, val |-> "saree"],
     [key |-> <<"g", "a", "r", "m", "e", "n", "t">>, val |-> "saree"],
     [key |-> <<"h", "a", "i", "r">>, val |-> "hair"],
     [key |-> <<"H", "a", "i", "r">>, val |-> "hair"],
     [key |-> <<"h", "e", "a", "d", "_", "h", "a", "i", "r">>,
      val |-> "hair"],
     [key |-> <<"m", "o", "t", "h", "e", "r", "_", "h", "a", "i", "r">>,
      val |-> "hair"],
     [key |-> <<"m", "o", "t", "h", "e", "r", "_", "s", "k", "i", "n">>,
      val |-> "mother_skin"],
     [key |-> <<"M", "o", "t", "h", "e", "r", "_", "S", "k", "i", "n">>,
      val |-> "mother_skin"],
     [key |-> <<"s", "k", "i", "n">>, val |-> "mother_skin"],
     [key |-> <<"S", "k", "i", "n">>, val |-> "mother_skin"],
     [key |-> <<"b", "o", "d", "y">>, val |-> "mother_skin"],
     [key |-> <<"f", "a", "c", "e">>, val |-> "mother_skin"],
     [key |-> <<"b", "a", "b", "y", "_", "s", "k", "i", "n">>,
      val |-> "baby_skin"],
     [key |-> <<"B", "a", "b", "y", "_", "S", "k", "i", "n">>,
      val |-> "baby_skin"],
     [key |-> <<"b", "a", "b", "y", "_", "b", "o", "d", "y">>,
      val |-> "baby_skin"],
     [key |-> <<"b", "a", "b", "y", "_", "h", "a", "i", "r">>,
      val |-> "baby_hair"],
     [key |-> <<"B", "a", "b", "y", "_", "H", "a", "i", "r">>,
      val |-> "baby_hair"],
     [key |-> <<"b", "a", "b", "y", "_", "h", "e", "a", "d">>,
      val |-> "baby_hair"],
     [key |-> <<"b", "a", "s", "e">>, val |-> "base"],
     [key |-> <<"B", "a", "s", "e">>, val |-> "base"],
     [key |-> <<"p", "e", "d", "e", "s", "t", "a", "l">>, val |-> "base"],
     [key |-> <<"P", "e", "d", "e", "s", "t", "a", "l">>, val |-> "base"],
     [key |-> <<"s", "t", "a", "n", "d">>, val |-> "base"] >>

\* the three images made per material type, in the order main() makes them
ImageKinds == <<"basecolor", "normal", "roughness">>

-----------------------------------------------------------------------------
(* The scenes the import may produce: object names are every key of        *)
(* MESH_MATERIAL_MAP and three further names; an object is a mesh with no  *)
(* material, a mesh with one, or a non-mesh object with one.               *)

ObjectNames ==
  << <<"s", "a", "r", "e", "e">>,
     <<"S", "a", "r", "e", "e">>,
     <<"c", "l", "o", "t", "h">>,
     <<"C", "l", "o", "t", "h">>,
     <<"g", "a", "r", "m", "e", "n", "t">>,
     <<"h", "a", "i", "r">>,
     <<"H", "a", "i", "r">>,
     <<"h", "e", "a", "d", "_", "h", "a", "i", "r">>,
     <<"m", "o", "t", "h", "e", "r", "_", "h", "a", "i", "r">>,
     <<"m", "o", "t", "h", "e", "r", "_", "s", "k", "i", "n">>,
     <<"M", "o", "t", "h", "e", "r", "_", "S", "k", "i", "n">>,
     <<"s", "k", "i", "n">>,
     <<"S", "k", "i", "n">>,
     <<"b", "o", "d", "y">>,
     <<"f", "a", "c", "e">>,
     <<"b", "a", "b", "y", "_", "s", "k", "i", "n">>,
     <<"B", "a", "b", "y", "_", "S", "k", "i", "n">>,
     <<"b", "a", "b", "y", "_", "b", "o", "d", "y">>,
     <<"b", "a", "b", "y", "_", "h", "a", "i", "r">>,
     <<"B", "a", "b", "y", "_", "H", "a", "i", "r">>,
     <<"b", "a", "b", "y", "_", "h", "e", "a", "d">>,
     <<"b", "a", "s", "e">>,
     <<"B", "a", "s", "e">>,
     <<"p", "e", "d", "e", "s", "t", "a", "l">>,
     <<"P", "e", "d", "e", "s", "t", "a", "l">>,
     <<"s", "t", "a", "n", "d">>,
     <<"M", "o", "t", "h", "e", "r", "_", "S", "k", "i", "n", "_",
       "0", "0", "1">>,
     <<"u", "n", "k", "n", "o", "w", "n", "_", "m", "e", "s", "h">>,
     <<"C", "a", "m", "e", "r", "a">> >>

\* at most this many objects in bpy.data.objects
MaxObjects == 1

ObjectKinds ==
  { [type |-> "MESH", materials |-> <<>>],
    [type |-> "MESH", materials |-> <<"imported">>],
    [type |-> "CURVE", materials |-> <<"imported">>] }

\* Blender keeps object names unique; the objects are listed by name index
Scenes ==
  UNION { { s \in [1..n -> [name : 1..Len(ObjectNames), kind : ObjectKinds]] :
              \A i \in 1..(n - 1) : s[i].name < s[i + 1].name }
          : n \in 0..MaxObjects }

SceneObjects(s) ==
  [i \in 1..Len(s) |->
     [name |-> s[i].name, type |-> s[i].kind.type,
      materials |-> s[i].kind.materials]]

-----------------------------------------------------------------------------
(* scripts/setup_pbr_textures.py: the matcher of main()'s assignment loop  *)

RECURSIVE ScanFrom_lastWins(_, _, _)
\* the scan without its break: a later matching entry overwrites mat_type
ScanFrom_lastWins(k, objName, found) ==
  IF k > Len(MESH_MATERIAL_MAP) THEN found
  ELSE ScanFrom_lastWins(k + 1, objName,
         IF IsSubstring(Lower(MESH_MATERIAL_MAP[k].key), Lower(objName))
         THEN MESH_MATERIAL_MAP[k].val ELSE found)

RECURSIVE ScanFrom(_, _, _)
\* for mesh_name, mtype in MESH_MATERIAL_MAP.items(): ... break
\* k is the entry the loop is at, found the value of mat_type so far
ScanFrom(k, objName, found) ==
  IF k > Len(MESH_MATERIAL_MAP) THEN found
  ELSE IF IsSubstring(Lower(MESH_MATERIAL_MAP[k].key), Lower(objName))
       THEN MESH_MATERIAL_MAP[k].val
       ELSE ScanFrom(k + 1, objName, found)

\* mat_type after the inner loop, for an object of this name
FindMatType(objName) == ScanFrom(1, objName, None)

\* FindMatType of every name an object can have
MatTypeOf == [n \in 1..Len(ObjectNames) |-> FindMatType(ObjectNames[n])]

\* obj.data.materials.append(...) without the clear() before it
NewSlots_noClear(old, mat) == Append(old, mat)

\* obj.data.materials.clear(); obj.data.materials.append(materials[mat_type])
NewSlots(old, mat) == <<mat>>

\* the materials dict has this key
HasMaterial(m) == \E k \in 1..Len(materials) : materials[k].name = m

-----------------------------------------------------------------------------
(* scripts/setup_pbr_textures.py: main() and the __main__ guard            *)

Ev(e, a, n) == [ev |-> e, a |-> a, n |-> n]

Logged(e) == \E k \in 1..Len(log) : log[k].ev = e

HdrIdle ==
  /\ hpc = "idle" /\ model_name = 0 /\ description = "" /\ model_data = <<>>
  /\ out = <<>> /\ hi = 0 /\ hret = 0

Init ==
  /\ pc = "clear"
  /\ inputExists \in BOOLEAN
  /\ objects = <<>> /\ imported = <<>>
  /\ images = <<>> /\ textures = {} /\ materials = <<>>
  /\ idx = 0 /\ visited = 0 /\ result = "unset" /\ log = <<>>
  /\ HdrIdle

\* bpy.ops.object.select_all(action='SELECT'); bpy.ops.object.delete(...)
Clear ==
  /\ pc = "clear"
  /\ log' = Append(log, Ev("clear", "", 0))
  /\ pc' = "check"
  /\ UNCHANGED <<inputExists, objects, imported, images, textures,
                 materials, idx, visited, result>>
  /\ UNCHANGED hdrVars

\* the existence check falling through to the import
CheckInput_noReturn ==
  /\ pc = "check" /\ ~inputExists
  /\ \E s \in Scenes :
       /\ objects' = SceneObjects(s)
       /\ imported' = SceneObjects(s)
  /\ log' = log \o <<Ev("print_not_found", "", 0), Ev("import", "", 0)>>
  /\ pc' = "textures" /\ idx' = 1
  /\ UNCHANGED <<inputExists, images, textures, materials, visited, result>>
  /\ UNCHANGED hdrVars

\* if not os.path.exists(INPUT_GLB): print(...); return
CheckInput ==
  /\ pc = "check" /\ ~inputExists
  /\ log' = Append(log, Ev("print_not_found", "", 0))
  /\ result' = None
  /\ pc' = "returned"
  /\ UNCHANGED <<inputExists, objects, imported, images, textures,
                 materials, idx, visited>>
  /\ UNCHANGED hdrVars

\* bpy.ops.import_scene.gltf(...); os.makedirs(TEXTURE_DIR); textures = {}
Import ==
  /\ pc = "check" /\ inputExists
  /\ \E s \in Scenes :
       /\ objects' = SceneObjects(s)
       /\ imported' = SceneObjects(s)
  /\ log' = Append(log, Ev("import", "", 0))
  /\ pc' = "textures" /\ idx' = 1
  /\ UNCHANGED <<inputExists, images, textures, materials, visited, result>>
  /\ UNCHANGED hdrVars

\* the material type and the image kind of the i-th image
TexMat(i) == MatTypes[((i - 1) \div Len(ImageKinds)) + 1]

TexKind(i) == ImageKinds[((i - 1) % Len(ImageKinds)) + 1]

TexName(m, k) == m \o "_" \o k

\* one of create_simple_texture / create_normal_map /
\* create_roughness_texture and the store into textures
GenTexture ==
  /\ pc = "textures"
  /\ idx <= Len(MatTypes) * Len(ImageKinds)
  /\ LET n == TexName(TexMat(idx), TexKind(idx)) IN
       /\ images' = Append(images, n)
       /\ textures' = textures \cup {n}
       /\ log' = Append(log, Ev("image", n, 0))
  /\ IF idx = Len(MatTypes) * Len(ImageKinds)
     THEN pc' = "materials" /\ idx' = 1
     ELSE pc' = pc /\ idx' = idx + 1
  /\ UNCHANGED <<inputExists, objects, imported, materials, visited,
                 result>>
  /\ UNCHANGED hdrVars

\* texture_dict = {...}; mat = create_pbr_material(...); materials[...] = mat
\* the three textures[...] lookups need their keys
CreateMaterial ==
  /\ pc = "materials"
  /\ idx <= Len(MatTypes)
  /\ LET m == MatTypes[idx] IN
       /\ \A k \in 1..Len(ImageKinds) : TexName(m, ImageKinds[k]) \in textures
       /\ materials' = Append(materials,
            [name |-> m, base_color |-> COLORS[m],
             roughness |-> ROUGHNESS[m], metallic |-> METALLIC[m],
             textures |-> [k \in 1..Len(ImageKinds) |->
                             TexName(m, ImageKinds[k])]])
       /\ log' = Append(log, Ev("material", m, 0))
  /\ IF idx = Len(MatTypes)
     THEN pc' = "assign" /\ idx' = 1
     ELSE pc' = pc /\ idx' = idx + 1
  /\ UNCHANGED <<inputExists, objects, imported, images, textures, visited,
                 result>>
  /\ UNCHANGED hdrVars

\* one iteration of `for obj in bpy.data.objects`
AssignObject ==
  /\ pc = "assign"
  /\ visited < Len(objects)
  /\ LET obj == objects[visited + 1]
         mat_type == MatTypeOf[obj.name]
     IN IF obj.type # "MESH"
        THEN UNCHANGED <<objects, log>>
        ELSE /\ log' = log
                  \o (IF mat_type # None
                      THEN <<Ev("print_match", mat_type, visited + 1)>> ELSE <<>>)
                  \o (IF mat_type # None /\ HasMaterial(mat_type)
                      THEN <<Ev("assign", mat_type, visited + 1)>> ELSE <<>>)
             /\ objects' =
                  IF mat_type # None /\ HasMaterial(mat_type)
                  THEN [objects EXCEPT ![visited + 1].materials =
                          NewSlots(obj.materials, mat_type)]
                  ELSE objects
  /\ visited' = visited + 1
  /\ UNCHANGED <<pc, inputExists, imported, images, textures, materials,
                 idx, result>>
  /\ UNCHANGED hdrVars

\* the export step placed where it runs before the loop has ended
Export_beforeLoopEnd ==
  /\ pc = "assign"
  /\ log' = Append(log, Ev("export", "", 0))
  /\ result' = "export_path"
  /\ pc' = "returned"
  /\ UNCHANGED <<inputExists, objects, imported, images, textures,
                 materials, idx, visited>>
  /\ UNCHANGED hdrVars

\* select_all; export_scene.gltf(...); the prints; return export_path
Export ==
  /\ pc = "assign"
  /\ visited = Len(objects)
  /\ log' = Append(log, Ev("export", "", 0))
  /\ result' = "export_path"
  /\ pc' = "returned"
  /\ UNCHANGED <<inputExists, objects, imported, images, textures,
                 materials, idx, visited>>
  /\ UNCHANGED hdrVars

\* result = main() has returned: print("SUCCESS: PBR setup complete.")
Succeed ==
  /\ pc = "returned"
  /\ log' = Append(log, Ev("print_success", "", 0))
  /\ pc' = "done"
  /\ UNCHANGED <<inputExists, objects, imported, images, textures,
                 materials, idx, visited, result>>
  /\ UNCHANGED hdrVars

\* main() is at a library call, which can raise
AtLibraryCall ==
  \/ pc = "clear"
  \/ pc = "check" /\ inputExists
  \/ pc = "textures"
  \/ pc = "materials"
  \/ pc = "assign" /\ visited = Len(objects)
  \/ /\ pc = "assign" /\ visited < Len(objects)
     /\ objects[visited + 1].type = "MESH"
     /\ MatTypeOf[objects[visited + 1].name] # None

\* a try block whose except clause does not catch: the exception escapes
Raise_uncaught ==
  /\ AtLibraryCall
  /\ log' = Append(log, Ev("uncaught", "", 0))
  /\ pc' = "done"
  /\ UNCHANGED <<inputExists, objects, imported, images, textures,
                 materials, idx, visited, result>>
  /\ UNCHANGED hdrVars

\* a call inside main() raises; except Exception as e: print(f"ERROR: {e}");
\* traceback.print_exc().  The call raised before it had any effect, or
\* the append raised after the clear(), or the pixel fill raised after
\* bpy.data.images.new() had made the image.
Raise ==
  /\ AtLibraryCall
  /\ log' = log \o <<Ev("print_error", "", 0), Ev("traceback", "", 0)>>
  /\ pc' = "done"
  /\ \/ UNCHANGED <<objects, images>>
     \/ /\ pc = "assign" /\ visited < Len(objects)
        /\ objects[visited + 1].materials # <<>>
        /\ objects' = [objects EXCEPT ![visited + 1].materials = <<>>]
        /\ UNCHANGED images
     \/ /\ pc = "textures"
        /\ images' = Append(images, TexName(TexMat(idx), TexKind(idx)))
        /\ UNCHANGED objects
  /\ UNCHANGED <<inputExists, imported, textures, materials, idx, visited,
                 result>>
  /\ UNCHANGED hdrVars

Next ==
  \/ Clear
  \/ CheckInput
  \/ Import
  \/ GenTexture
  \/ CreateMaterial
  \/ AssignObject
  \/ Export
  \/ Succeed
  \/ Raise

Spec == Init /\ [][Next]_vars

-----------------------------------------------------------------------------
(* firmware/simple_gen.py: generate_c_header(model_name, description)      *)

ModelNames ==
  << <<"a", "r", "r", "h", "y", "t", "h", "m", "i", "a", "_",
       "r", "i", "s", "k", "_", "m", "o", "d", "e", "l">>,
     <<"a", "n", "e", "m", "i", "a", "_",
       "r", "i", "s", "k", "_", "m", "o", "d", "e", "l">>,
     <<"p", "r", "e", "e", "c", "l", "a", "m", "p", "s", "i", "a", "_",
       "r", "i", "s", "k", "_", "m", "o", "d", "e", "l">> >>

\* the three descriptions the script passes, and one that looks like code
Descriptions ==
  {"Arrhythmia Detection", "Anemia Risk Assessment",
   "Preeclampsia Detection", "0x00, };"}

\* b'TFL3'
TagBytes == <<84, 70, 76, 51>>

\* b'\x00' * 1020
PadLen == 1020

Zeros(n) == [i \in 1..n |-> 0]

\* the buffer with the padding of generate_tflite_models.py
BuildModelData_pad1000 == TagBytes \o Zeros(1000)

\* model_data = bytearray(); extend(b'TFL3'); extend(b'\x00' * 1020)
BuildModelData == TagBytes \o Zeros(PadLen)

HexDigits ==
  <<"0", "1", "2", "3", "4", "5", "6", "7",
    "8", "9", "a", "b", "c", "d", "e", "f">>

\* f'0x{byte:02x}' for a byte of a bytearray
Hex2(byte) ==
  "0x" \o HexDigits[(byte \div 16) + 1] \o HexDigits[(byte % 16) + 1]

DecDigits == <<"0", "1", "2", "3", "4", "5", "6", "7", "8", "9">>

RECURSIVE DecStr(_)
\* f'{n}' for a non-negative int
DecStr(n) ==
  IF n < 10 THEN DecDigits[n + 1]
  ELSE DecStr(n \div 10) \o DecDigits[(n % 10) + 1]

\* guard = model_name.upper() + '_H'
Guard(name) == Str(Upper(name)) \o "_H"

\* the separator with the bound one too far: a comma after the last byte
Separator_trailingComma(i, n) ==
  IF i < n
  THEN <<",", IF (i + 1) % 16 = 0 THEN "\n  " ELSE " ">>
  ELSE <<>>

\* what the loop writes after byte i of n (i counts from 0)
Separator(i, n) ==
  IF i < n - 1
  THEN <<",", IF (i + 1) % 16 = 0 THEN "\n  " ELSE " ">>
  ELSE <<>>

PbrIdle ==
  /\ pc = "idle" /\ inputExists = FALSE /\ objects = <<>> /\ imported = <<>>
  /\ images = <<>> /\ textures = {} /\ materials = <<>> /\ idx = 0
  /\ visited = 0 /\ result = "unset" /\ log = <<>>

HInit ==
  /\ hpc = "entry"
  /\ model_name \in 1..Len(ModelNames)
  /\ description \in Descriptions
  /\ model_data = <<>> /\ out = <<>> /\ hi = 0 /\ hret = 0
  /\ PbrIdle

\* header_path = ...; model_data = bytearray(); the two extend() calls
HBuild ==
  /\ hpc = "entry"
  /\ model_data' = BuildModelData
  /\ hpc' = "open"
  /\ UNCHANGED <<model_name, description, out, hi, hret>>
  /\ UNCHANGED pbrVars

\* with open(header_path, 'w') as f: and the seven writes before the loop
HPreamble ==
  /\ hpc = "open"
  /\ LET name == Str(ModelNames[model_name])
         guard == Guard(ModelNames[model_name])
     IN out' = << "#ifndef " \o guard \o "\n",
                  "#define " \o guard \o "\n\n",
                  "// Model: " \o description \o "\n",
                  "// NOTE: Placeholder - firmware uses rule-based AI\n\n",
                  "const unsigned char ",
                  name \o "_tflite[] ",
                  "__attribute__((aligned(16))) = {\n  " >>
  /\ hi' = 0
  /\ hpc' = "loop"
  /\ UNCHANGED <<model_name, description, model_data, hret>>
  /\ UNCHANGED pbrVars

\* one iteration of `for i, byte in enumerate(model_data)`
HWriteByte ==
  /\ hpc = "loop"
  /\ hi < Len(model_data)
  /\ out' = out \o <<Hex2(model_data[hi + 1])>>
                \o Separator(hi, Len(model_data))
  /\ hi' = hi + 1
  /\ UNCHANGED <<hpc, model_name, description, model_data, hret>>
  /\ UNCHANGED pbrVars

\* the three writes after the loop; the file is closed
HEpilogue ==
  /\ hpc = "loop"
  /\ hi = Len(model_data)
  /\ LET name == Str(ModelNames[model_name])
         guard == Guard(ModelNames[model_name])
     IN out' = out \o
          << "\n};\n\n",
             "const unsigned int " \o name \o "_tflite_len = "
               \o DecStr(Len(model_data)) \o ";\n\n",
             "#endif // " \o guard \o "\n" >>
  /\ hpc' = "close"
  /\ UNCHANGED <<model_name, description, model_data, hi, hret>>
  /\ UNCHANGED pbrVars

\* print(...); return len(model_data)
HReturn ==
  /\ hpc = "close"
  /\ hret' = Len(model_data)
  /\ hpc' = "done"
  /\ UNCHANGED <<model_name, description, model_data, out, hi>>
  /\ UNCHANGED pbrVars

HNext ==
  \/ HBuild
  \/ HPreamble
  \/ HWriteByte
  \/ HEpilogue
  \/ HReturn

SpecHeader == HInit /\ [][HNext]_vars

-----------------------------------------------------------------------------
(* What the claims speak of, stated apart from the code's own scan         *)

\* key occurs in name, letter case ignored
ContainsCI(name, key) ==
  \E k \in 0..(Len(name) - Len(key)) :
    \A i \in 1..Len(key) : LowerChar(name[k + i]) = LowerChar(key[i])

MatchingEntries(name) ==
  {k \in 1..Len(MESH_MATERIAL_MAP) : ContainsCI(name, MESH_MATERIAL_MAP[k].key)}

\* the value of the first matching entry in table order, or None
FirstEntryValue(name) ==
  LET S == MatchingEntries(name) IN
    IF S = {} THEN None
    ELSE MESH_MATERIAL_MAP[CHOOSE k \in S : \A j \in S : k <= j].val

ExpectedOf == [n \in 1..Len(ObjectNames) |-> FirstEntryValue(ObjectNames[n])]

\* the prints and assignments the loop made for the object at position i
EventsOf(i) ==
  {k \in 1..Len(log) : log[k].n = i /\ log[k].ev \in {"print_match", "assign"}}

\* the loop chose material key m for object i and assigned that material
ChoseAndAssigned(i, m) ==
  /\ \E k \in EventsOf(i) : log[k] = Ev("print_match", m, i)
  /\ \E k \in EventsOf(i) : log[k] = Ev("assign", m, i)
  /\ \A k \in EventsOf(i) : log[k].a = m
  /\ objects[i].materials = <<m>>

\* the loop chose no key for object i and left its slots alone
ChoseNothing(i) ==
  /\ EventsOf(i) = {}
  /\ objects[i].materials = imported[i].materials

IsMesh(i) == objects[i].type = "MESH"

NameIs(i, name) == ObjectNames[objects[i].name] = name

\* the assignment loop has run to its end
LoopEnded == pc \in {"assign", "returned", "done"} /\ visited = Len(objects)

\* C1: every mesh the loop has been through got the value of the first table
\* entry, in insertion order, whose lower-cased key occurs in its lower-cased
\* name, and a mesh with no such entry got no key and no material
C1_FirstMatchWins ==
  \A i \in 1..visited :
    IsMesh(i) =>
      IF ExpectedOf[objects[i].name] = None
      THEN ChoseNothing(i)
      ELSE ChoseAndAssigned(i, ExpectedOf[objects[i].name])

\* a mesh whose name matches entries of different values has been assigned
C1_Witness ==
  \E i \in 1..visited :
    /\ IsMesh(i)
    /\ \E j, k \in MatchingEntries(ObjectNames[objects[i].name]) :
         MESH_MATERIAL_MAP[j].val # MESH_MATERIAL_MAP[k].val
    /\ \E k \in EventsOf(i) : log[k].ev = "assign"

\* C2: "Mother_Skin_001" gets mother_skin, "Pedestal" gets base and
\* "unknown_mesh" gets no material
C2_RepresentativeNames ==
  \A i \in 1..visited :
    IsMesh(i) =>
      /\ NameIs(i, <<"M", "o", "t", "h", "e", "r", "_", "S", "k", "i", "n",
                     "_", "0", "0", "1">>)
           => ChoseAndAssigned(i, "mother_skin")
      /\ NameIs(i, <<"P", "e", "d", "e", "s", "t", "a", "l">>)
           => ChoseAndAssigned(i, "base")
      /\ NameIs(i, <<"u", "n", "k", "n", "o", "w", "n", "_",
                     "m", "e", "s", "h">>)
           => ChoseNothing(i)

\* the mesh "Mother_Skin_001", imported with a material, holds mother_skin
C2_Witness ==
  \E i \in 1..visited :
    /\ IsMesh(i)
    /\ NameIs(i, <<"M", "o", "t", "h", "e", "r", "_", "S", "k", "i", "n",
                   "_", "0", "0", "1">>)
    /\ imported[i].materials # <<>>
    /\ objects[i].materials = <<"mother_skin">>

\* the events before the import that no run has when the file is missing
AfterImportEvents == {"import", "image", "material", "assign", "export"}

Count(e) == Cardinality({k \in 1..Len(log) : log[k].ev = e})

\* main() raised: the script is over and main() returned nothing
MainRaised == pc = "done" /\ result = "unset"

\* C6: an exception raised in main() never escapes: ERROR and a stack trace
\* are printed and SUCCESS is not; a finished run printed exactly one of the
\* two final status lines, an unfinished one neither
C6_CatchAll ==
  /\ MainRaised =>
       /\ Count("print_error") = 1 /\ Count("traceback") = 1
       /\ log[Len(log) - 1].ev = "print_error"
       /\ log[Len(log)].ev = "traceback"
       /\ Count("print_success") = 0
  /\ pc = "done" => Count("print_success") + Count("print_error") = 1
  /\ pc # "done" => Count("print_success") + Count("print_error") = 0

\* a run that raised after some materials were created
C6_Witness ==
  /\ MainRaised
  /\ Len(materials) > 0
  /\ Logged("print_error")

RECURSIVE AssignEvents(_)
\* what the loop prints and assigns for objects i, i+1, ... as imported
AssignEvents(i) ==
  IF i > Len(imported) THEN <<>>
  ELSE (IF imported[i].type = "MESH" /\ ExpectedOf[imported[i].name] # None
        THEN <<Ev("print_match", ExpectedOf[imported[i].name], i),
               Ev("assign", ExpectedOf[imported[i].name], i)>>
        ELSE <<>>)
       \o AssignEvents(i + 1)

ImageEvents ==
  [i \in 1..(Len(MatTypes) * Len(ImageKinds)) |->
     Ev("image", TexName(TexMat(i), TexKind(i)), 0)]

MaterialEvents == [i \in 1..Len(MatTypes) |-> Ev("material", MatTypes[i], 0)]

\* the whole of a run that neither misses its input nor raises
FullRun ==
  <<Ev("clear", "", 0), Ev("import", "", 0)>> \o ImageEvents
    \o MaterialEvents \o AssignEvents(1) \o <<Ev("export", "", 0)>>

C8_EveryEntryHonoured ==
  \A i \in 1..visited :
    IsMesh(i) =>
      \A k \in 1..Len(MESH_MATERIAL_MAP) :
        NameIs(i, MESH_MATERIAL_MAP[k].key)
          => objects[i].materials = <<MESH_MATERIAL_MAP[k].val>>

C10_SuccessOnlyAfterExport ==
  Logged("print_success") => Logged("export")

-----------------------------------------------------------------------------
(* The header file, as the claims expect it                                *)

\* the byte literals of 'T', 'F', 'L', '3' and of a zero byte
ByteLiterals == {"0x54", "0x46", "0x4c", "0x33", "0x00"}

NameText ==
  <<"arrhythmia_risk_model", "anemia_risk_model", "preeclampsia_risk_model">>

GuardText ==
  <<"ARRHYTHMIA_RISK_MODEL_H", "ANEMIA_RISK_MODEL_H",
    "PREECLAMPSIA_RISK_MODEL_H">>

\* the writes that open and close the array initializer
OpenBrace == "__attribute__((aligned(16))) = {\n  "

CloseBrace == "\n};\n\n"

Positions(tok) == {k \in 1..Len(out) : out[k] = tok}

\* the positions of the byte literals after the opening brace
LiteralPositions ==
  {k \in 1..Len(out) :
     /\ out[k] \in ByteLiterals
     /\ \E j \in 1..(k - 1) : out[j] = OpenBrace}

LenLine(n) ==
  "const unsigned int " \o NameText[model_name] \o "_tflite_len = " \o n
    \o ";\n\n"

\* C3: the number of byte literals in the initializer, the integer written
\* as <model_name>_tflite_len and the returned value all equal the length
\* of the buffer, 4 + 1020 = 1024, whatever the name and the description
C3_LengthAgrees ==
  /\ hpc = "loop" => Cardinality(LiteralPositions) = hi
  /\ hpc \in {"close", "done"} =>
       /\ Len(model_data) = 1024
       /\ Cardinality(LiteralPositions) = Len(model_data)
       /\ Positions(LenLine("1024")) # {}
  /\ hpc = "done" => hret = Cardinality(LiteralPositions)

\* a header has been written under the description that looks like code
C3_Witness ==
  /\ hpc = "done"
  /\ hret = 1024
  /\ description = "0x00, };"

\* the writes between the opening and the closing brace
Initializer ==
  LET o == CHOOSE k \in Positions(OpenBrace) : TRUE
      c == CHOOSE k \in Positions(CloseBrace) : TRUE
  IN SubSeq(out, o + 1, c - 1)

\* literal, comma, blank, literal, ... ending in a literal: one comma between
\* neighbours, none after the last, a line break after every 16th but the last
WellSeparated(body, n) ==
  /\ Len(body) = 3 * n - 2
  /\ \A k \in 1..n : body[3 * k - 2] \in ByteLiterals
  /\ \A k \in 1..(n - 1) :
       /\ body[3 * k - 1] = ","
       /\ body[3 * k] = IF k % 16 = 0 THEN "\n  " ELSE " "

\* C4: the header starts with #ifndef G and #define G and ends with
\* #endif // G, G the upper-cased name plus _H; in between there is one
\* array definition followed by one length definition; the literals are
\* separated as WellSeparated says
C4_WellFormedHeader ==
  hpc \in {"close", "done"} =>
    LET G == GuardText[model_name]
        N == NameText[model_name]
    IN /\ out[1] = "#ifndef " \o G \o "\n"
       /\ out[2] = "#define " \o G \o "\n\n"
       /\ out[Len(out)] = "#endif // " \o G \o "\n"
       /\ Positions("const unsigned char ") = {5}
       /\ out[6] = N \o "_tflite[] "
       /\ Positions(OpenBrace) = {7}
       /\ Positions(CloseBrace) = {Len(out) - 2}
       /\ Positions(LenLine("1024")) = {Len(out) - 1}
       /\ WellSeparated(Initializer, Len(model_data))

\* the header of the anemia model is complete
C4_Witness ==
  /\ hpc = "done"
  /\ out[Len(out)] = "#endif // ANEMIA_RISK_MODEL_H\n"
  /\ Len(out) > 1024

====
